---- MODULE Spec2Model ----
(***************************************************************************)
(* Ant-colony solver of tsp-solver/src/tsp.rs: the Colony (edge table,     *)
(* map flag, best path, path buffer), Colony::run stepped ant by ant, and  *)
(* Colony::best_path.  f32 values are modelled as integers.  A panic of    *)
(* run (a failed HashMap index or unwrap) ends the behaviour in            *)
(* pc = "panicked" with the colony as it was at the panic.                 *)
(***************************************************************************)
EXTENDS Integers, Sequences, FiniteSets, TLC

\* ---------------------------------------------------------------- bounds
MaxNode == 2
MaxAnts == 3
MaxTargets == 2
MaxGen == 3
KeyMaxNode == 6
MaxLevel == 4
MaxDeposit == 2

Node == 0..MaxNode
Qualities == {5, 10}

\* An item of Visitor::TargetIter: (quality, target index).
Candidates == Qualities \X Node

\* The finite enumerations a targets() call may return.
TargetLists == UNION {[1..n -> Candidates] : n \in 0..MaxTargets}

\* The Evaluator implementations supplied to run.
Evaluators == {"sum_identity", "product_double"}

VARIABLES
    edges,          \* Colony.edges: EdgeKey -> <<pheromones[0], pheromones[1]>>
    use_map_b,      \* Colony.use_map_b
    best_path,      \* Colony.best_path: <<quality, path>>
    path_buf,       \* Colony.path_buf
    pc,             \* position inside run: idle, loop, walk, finish, panicked
    ant_count,      \* run's argument
    ants_done,      \* iterations of `for _ in 0..ant_count` completed
    total_quality,  \* run's local
    curr_index,     \* run's local
    evaluator,      \* run's argument
    log,            \* calls made to the Visitor and the Evaluator by this run
    gens,           \* number of run calls that have returned
    keytest,        \* inputs and results of EdgeKey::new (SpecKey only)
    edgetest        \* one Edge and the flag over generations (SpecEdge only)

vars == <<edges, use_map_b, best_path, path_buf, pc, ant_count, ants_done,
          total_quality, curr_index, evaluator, log, gens, keytest,
          edgetest>>

\* ------------------------------------------------------- pure functions

\* EdgeKey::new: the smaller index first (the unordered variant keeps the
\* argument order).
EdgeKeyNewUnordered(a, b) == <<a, b>>

EdgeKeyNew(a, b) == IF a < b THEN <<a, b>> ELSE <<b, a>>

\* Edge::get_pheromone / get_pheromone_mut: slot `use_b as usize`.
Slot(use_b) == IF use_b THEN 2 ELSE 1

GetPheromone(edge, use_b) == edge[Slot(use_b)]

\* Edge::copy_pheromones (the reversed variant copies out of the slot it
\* should copy into).
CopyPheromonesReversed(edge, into_b) ==
    IF into_b THEN <<edge[2], edge[2]>> ELSE <<edge[1], edge[1]>>

CopyPheromones(edge, into_b) ==
    IF into_b THEN <<edge[1], edge[1]>> ELSE <<edge[2], edge[2]>>

\* Evaluator::edge_quality of the supplied evaluator.
EdgeQuality(e, quality, pheromone) ==
    IF e = "sum_identity" THEN quality + pheromone
    ELSE quality * (pheromone + 1)

\* Evaluator::pheromones_deposited of the supplied evaluator.
PheromonesDeposited(e, total) ==
    IF e = "sum_identity" THEN total ELSE 2 * total

\* Iterator::max_by over (visit_quality, quality, target) triples: a fold
\* that keeps the running maximum only when it compares Greater, so the
\* last of several equal maxima is returned.
RECURSIVE MaxByFrom(_, _, _)
MaxByFrom(s, i, best) ==
    IF i > Len(s) THEN best
    ELSE MaxByFrom(s, i + 1, IF best[1] > s[i][1] THEN best ELSE s[i])

MaxBy(s) == MaxByFrom(s, 2, s[1])

\* The closure mapped over targets(): candidate by candidate, in the order
\* enumerated, the edge is indexed in the table (a panic when absent) and
\* then scored.
AllEdgesPresent(e, curr, tl) ==
    \A i \in 1..Len(tl) : EdgeKeyNew(curr, tl[i][2]) \in DOMAIN e

\* The candidate at which the index panics: the first whose edge is absent.
FirstAbsent(e, curr, tl) ==
    CHOOSE i \in 1..Len(tl) :
        /\ EdgeKeyNew(curr, tl[i][2]) \notin DOMAIN e
        /\ \A j \in 1..(i - 1) : EdgeKeyNew(curr, tl[j][2]) \in DOMAIN e

Scored(e, use_b, ev, curr, tl) ==
    [i \in 1..Len(tl) |->
        <<EdgeQuality(ev, tl[i][1],
                      GetPheromone(e[EdgeKeyNew(curr, tl[i][2])], use_b)),
          tl[i][1], tl[i][2]>>]

\* A logged policy call.
Call(op, arg, list) == [op |-> op, arg |-> arg, list |-> list]

\* The edge_quality calls the closure makes, one per candidate, in order.
ScoringCalls(e, use_b, curr, tl) ==
    [i \in 1..Len(tl) |->
        Call("edge_quality", tl[i][1],
             <<GetPheromone(e[EdgeKeyNew(curr, tl[i][2])], use_b)>>)]

\* `self.path_buf.push(curr_index)` after the travel loop (the omitting
\* variant leaves the buffer as the moves left it).
PushLastOmitted(buf, curr) == buf

PushLast(buf, curr) == Append(buf, curr)

\* The deposit loop `for i in 0..(path_buf.len() - 1)`: ok is FALSE when
\* get_mut(&key).unwrap() panics; deposits made before that stay.  On an
\* empty buffer the usize bound len() - 1 underflows: a panic in a debug
\* build, and in a release build a wrapped bound whose first index panics.
RECURSIVE DepositFrom(_, _, _, _, _)
DepositFrom(e, path, i, deposited, use_b) ==
    IF Len(path) = 0 THEN [edges |-> e, ok |-> FALSE]
    ELSE IF i > Len(path) - 1 THEN [edges |-> e, ok |-> TRUE]
    ELSE LET key == EdgeKeyNew(path[i], path[i + 1])
         IN  IF key \notin DOMAIN e THEN [edges |-> e, ok |-> FALSE]
             ELSE DepositFrom(
                    [e EXCEPT ![key][Slot(use_b)] = @ + deposited],
                    path, i + 1, deposited, use_b)

\* Colony::best_path().
NoPath == <<"None">>
SomePath(q, p) == <<"Some", q, p>>
BestPathResult(bp) == IF bp[1] > 0 THEN SomePath(bp[1], bp[2]) ELSE NoPath

NoKeyTest == [a |-> 0, b |-> 0, ab |-> <<>>, ba |-> <<>>, st |-> "unused"]

NoEdgeTest == [ph |-> <<0, 0>>, use_b |-> FALSE, end_level |-> 0,
               st |-> "unused"]

\* ------------------------------------------------------------------ Init

\* Colony::new(): Default of every field; no run in progress.
Init ==
    /\ edges = <<>>
    /\ use_map_b = FALSE
    /\ best_path = <<0, <<>>>>
    /\ path_buf = <<>>
    /\ pc = "idle"
    /\ ant_count = 0
    /\ ants_done = 0
    /\ total_quality = 0
    /\ curr_index = 0
    /\ evaluator = "sum_identity"
    /\ log = <<>>
    /\ gens = 0
    /\ keytest = NoKeyTest
    /\ edgetest = NoEdgeTest

\* --------------------------------------------------------------- actions

\* run is called: the carry-forward loop over edges.values_mut().
RunBegin ==
    /\ pc = "idle"
    /\ gens < MaxGen
    /\ \E n \in 0..MaxAnts, ev \in Evaluators :
          /\ ant_count' = n
          /\ evaluator' = ev
    /\ edges' = [k \in DOMAIN edges |-> CopyPheromones(edges[k], use_map_b)]
    /\ ants_done' = 0
    /\ log' = <<>>
    /\ pc' = "loop"
    /\ UNCHANGED <<use_map_b, best_path, path_buf, total_quality, curr_index,
                   gens, keytest, edgetest>>

\* An iteration of the ant loop starts: clear the buffer, reset the visitor.
AntBegin ==
    /\ pc = "loop"
    /\ ants_done < ant_count
    /\ path_buf' = <<>>
    /\ total_quality' = 0
    /\ \E r \in Node :
          /\ curr_index' = r
          /\ log' = Append(log, Call("reset", r, <<>>))
    /\ pc' = "walk"
    /\ UNCHANGED <<edges, use_map_b, best_path, ant_count, ants_done,
                   evaluator, gens, keytest, edgetest>>

\* One pass of the travel loop: enumerate the targets, score them, move to
\* the maximum or stop at a dead end.
AntStep ==
    /\ pc = "walk"
    /\ \E tl \in TargetLists :
          LET asked == Append(log, Call("targets", curr_index, tl))
          IN
          IF tl = <<>>
          THEN /\ pc' = "finish"
               /\ log' = asked
               /\ UNCHANGED <<total_quality, curr_index, path_buf>>
          ELSE IF ~AllEdgesPresent(edges, curr_index, tl)
          THEN /\ pc' = "panicked"
               /\ log' = asked \o ScoringCalls(
                                    edges, use_map_b, curr_index,
                                    SubSeq(tl, 1, FirstAbsent(edges, curr_index,
                                                              tl) - 1))
               /\ UNCHANGED <<total_quality, curr_index, path_buf>>
          ELSE LET choice == MaxBy(Scored(edges, use_map_b, evaluator,
                                          curr_index, tl))
               IN  /\ total_quality' = total_quality + choice[2]
                   /\ curr_index' = choice[3]
                   /\ path_buf' = Append(path_buf, choice[3])
                   /\ log' = Append(asked \o ScoringCalls(edges, use_map_b,
                                                          curr_index, tl),
                                    Call("walk_to", choice[3], <<>>))
                   /\ pc' = "walk"
    /\ UNCHANGED <<edges, use_map_b, best_path, ant_count, ants_done,
                   evaluator, gens, keytest, edgetest>>

\* Swap of best_path.1 and path_buf when the ant's total beats best_path.0;
\* best_path.0 itself is not assigned.
UpdateBestWrongField(bp, buf, total, curr) ==
    [best |-> <<curr, bp[2]>>, buf |-> buf]

\* Variants of the update: swapping on a tie too, and swapping always.
UpdateBestOnTie(bp, buf, total, curr) ==
    IF total >= bp[1]
    THEN [best |-> <<bp[1], buf>>, buf |-> bp[2]]
    ELSE [best |-> bp, buf |-> buf]

UpdateBestAlways(bp, buf, total, curr) ==
    [best |-> <<bp[1], buf>>, buf |-> bp[2]]

UpdateBest(bp, buf, total, curr) ==
    IF total > bp[1]
    THEN [best |-> <<bp[1], buf>>, buf |-> bp[2]]
    ELSE [best |-> bp, buf |-> buf]

\* The ant is at a dead end: push the last node, deposit, update the best.
AntFinish ==
    /\ pc = "finish"
    /\ LET path == PushLast(path_buf, curr_index)
           deposited == PheromonesDeposited(evaluator, total_quality)
           dep == DepositFrom(edges, path, 1, deposited, use_map_b)
           upd == UpdateBest(best_path, path, total_quality, curr_index)
       IN  /\ log' = Append(log, Call("pheromones_deposited", total_quality, <<>>))
           /\ edges' = dep.edges
           /\ IF dep.ok
              THEN /\ best_path' = upd.best
                   /\ path_buf' = upd.buf
                   /\ ants_done' = ants_done + 1
                   /\ pc' = "loop"
              ELSE /\ path_buf' = path
                   /\ pc' = "panicked"
                   /\ UNCHANGED <<best_path, ants_done>>
    /\ UNCHANGED <<use_map_b, ant_count, total_quality, curr_index, evaluator,
                   gens, keytest, edgetest>>

\* All ants are done: swap the pheromone trails and return.
FlipKept(b) == b

FlipSet(b) == TRUE

Flip(b) == ~b

RunEnd ==
    /\ pc = "loop"
    /\ ants_done = ant_count
    /\ use_map_b' = Flip(use_map_b)
    /\ gens' = gens + 1
    /\ pc' = "idle"
    /\ UNCHANGED <<edges, best_path, path_buf, ant_count, ants_done,
                   total_quality, curr_index, evaluator, log, keytest,
                   edgetest>>

Next == RunBegin \/ AntBegin \/ AntStep \/ AntFinish \/ RunEnd

Spec == Init /\ [][Next]_vars

\* ------------------------------------------- EdgeKey::new on drawn inputs

KeyNode == 0..KeyMaxNode

\* A colony as constructed, and a pair of node indices to build keys from.
InitKey ==
    /\ edges = <<>>
    /\ use_map_b = FALSE
    /\ best_path = <<0, <<>>>>
    /\ path_buf = <<>>
    /\ pc = "idle"
    /\ ant_count = 0
    /\ ants_done = 0
    /\ total_quality = 0
    /\ curr_index = 0
    /\ evaluator = "sum_identity"
    /\ log = <<>>
    /\ gens = 0
    /\ keytest \in [a : KeyNode, b : KeyNode, ab : {<<>>}, ba : {<<>>},
                    st : {"drawn"}]
    /\ edgetest = NoEdgeTest

\* EdgeKey::new(a, b) is evaluated.
KeyAB ==
    /\ keytest.st = "drawn"
    /\ keytest.ab = <<>>
    /\ keytest' = [keytest EXCEPT !.ab = EdgeKeyNew(keytest.a, keytest.b)]
    /\ UNCHANGED <<edges, use_map_b, best_path, path_buf, pc, ant_count,
                   ants_done, total_quality, curr_index, evaluator, log, gens,
                   edgetest>>

\* EdgeKey::new(b, a) is evaluated.
KeyBA ==
    /\ keytest.st = "drawn"
    /\ keytest.ba = <<>>
    /\ keytest' = [keytest EXCEPT !.ba = EdgeKeyNew(keytest.b, keytest.a)]
    /\ UNCHANGED <<edges, use_map_b, best_path, path_buf, pc, ant_count,
                   ants_done, total_quality, curr_index, evaluator, log, gens,
                   edgetest>>

NextKey == KeyAB \/ KeyBA

SpecKey == InitKey /\ [][NextKey]_vars

\* --------------------------- one Edge under run's flip, copy and deposit

Levels == 0..MaxLevel
Deposits == 0..MaxDeposit

\* The slot of the Edge that the flag selects.
ActiveLevel(t) == GetPheromone(t.ph, t.use_b)

\* A colony as constructed, and an Edge with drawn levels under a drawn flag,
\* as some generation's ants are writing it; end_level is the active level
\* at the last return of run (0 before any).
InitEdge ==
    /\ edges = <<>>
    /\ use_map_b = FALSE
    /\ best_path = <<0, <<>>>>
    /\ path_buf = <<>>
    /\ pc = "idle"
    /\ ant_count = 0
    /\ ants_done = 0
    /\ total_quality = 0
    /\ curr_index = 0
    /\ evaluator = "sum_identity"
    /\ log = <<>>
    /\ gens = 0
    /\ keytest = NoKeyTest
    /\ edgetest \in [ph : Levels \X Levels, use_b : BOOLEAN, end_level : {0},
                     st : {"written"}]

\* `*curr_level += deposited` on the slot get_pheromone_mut selects.
EdgeDeposit ==
    /\ edgetest.st \in {"copied", "written"}
    /\ \E d \in Deposits :
          /\ ActiveLevel(edgetest) + d <= MaxLevel
          /\ edgetest' = [edgetest EXCEPT !.ph[Slot(edgetest.use_b)] = @ + d,
                                          !.st = "written"]
    /\ UNCHANGED <<edges, use_map_b, best_path, path_buf, pc, ant_count,
                   ants_done, total_quality, curr_index, evaluator, log, gens,
                   keytest>>

\* run returns: the flag is flipped.
EdgeRunEnd ==
    /\ edgetest.st \in {"copied", "written"}
    /\ edgetest' = [edgetest EXCEPT !.end_level = ActiveLevel(edgetest),
                                    !.use_b = Flip(edgetest.use_b),
                                    !.st = "flipped"]
    /\ UNCHANGED <<edges, use_map_b, best_path, path_buf, pc, ant_count,
                   ants_done, total_quality, curr_index, evaluator, log, gens,
                   keytest>>

\* The next run starts: edge.copy_pheromones(self.use_map_b).
EdgeRunBegin ==
    /\ edgetest.st = "flipped"
    /\ edgetest' = [edgetest EXCEPT
                       !.ph = CopyPheromones(edgetest.ph, edgetest.use_b),
                       !.st = "copied"]
    /\ UNCHANGED <<edges, use_map_b, best_path, path_buf, pc, ant_count,
                   ants_done, total_quality, curr_index, evaluator, log, gens,
                   keytest>>

NextEdge == EdgeDeposit \/ EdgeRunEnd \/ EdgeRunBegin

SpecEdge == InitEdge /\ [][NextEdge]_vars

\* ------------------------------------------------------------ vocabulary

\* The run call is over: it returned or it panicked.
RunOver == pc \in {"idle", "panicked"} /\ (gens > 0 \/ pc = "panicked")

\* Some ant of this run was offered at least one target (every quality in
\* Qualities is positive, so an ant that moves has total quality > 0).
OfferedMove ==
    \E i \in 1..Len(log) : log[i].op = "targets" /\ log[i].list # <<>>

\* The policy responses of the two-node scenario: reset gives node 0, node 0
\* offers only (quality 10, target 1), node 1 offers nothing.
FollowsScenario ==
    \A i \in 1..Len(log) :
        /\ log[i].op = "reset" => log[i].arg = 0
        /\ log[i].op = "targets" =>
              \/ log[i].arg = 0 /\ log[i].list = << <<10, 1>> >>
              \/ log[i].arg = 1 /\ log[i].list = <<>>

\* Quality reported by best_path(), "no path recorded" counting as 0.
ReportedQuality(bp) ==
    IF BestPathResult(bp) = NoPath THEN 0 ELSE BestPathResult(bp)[2]

\* ---------------------------------------------------------------- claims

\* C1: best_path() is None until a generation in which an ant produced
\* total quality > 0 has completed, and Some from then on: once a run whose
\* ant was offered a move (of positive quality) is over, best_path() is Some;
\* while no ant has been offered a move it is None.
C1_Sentinel ==
    /\ (RunOver /\ OfferedMove) => BestPathResult(best_path) # NoPath
    /\ (gens = 0 /\ ~OfferedMove) => BestPathResult(best_path) = NoPath

\* C2: an ant whose total quality strictly exceeds every earlier total (here
\* the first ant offered a move while best_quality is 0) finishes with its
\* path and its total recorded as the best-path record.
C2_ImprovementRecorded ==
    (best_path[1] = 0 /\ OfferedMove /\ pc \in {"loop", "idle", "panicked"})
        => /\ pc # "panicked"
           /\ best_path[1] > 0
           /\ Len(best_path[2]) > 0

\* C3: in the two-node scenario from zero pheromone, a generation of N ants
\* ends with current-buffer pheromone of edge {0,1} (the buffer written by
\* that generation) equal to N * pheromones_deposited(10).
C3_Accumulation ==
    (gens = 0 /\ ant_count >= 1 /\ FollowsScenario /\ OfferedMove
        /\ pc \in {"idle", "panicked"})
        => /\ pc = "idle"
           /\ <<0, 1>> \in DOMAIN edges
           /\ edges[<<0, 1>>][Slot(~use_map_b)]
                 = ant_count * PheromonesDeposited(evaluator, 10)

\* C4: scoring a candidate whose edge is not in the table creates the edge
\* (zero pheromone in both buffers) and run goes on: every candidate that
\* has been scored has its edge in the table, and run has not failed.
C4_LazyEdgeCreation ==
    /\ pc # "panicked"
    /\ \A i \in 1..Len(log) :
          log[i].op = "targets" =>
             \A j \in 1..Len(log[i].list) :
                EdgeKeyNew(log[i].arg, log[i].list[j][2]) \in DOMAIN edges

\* C5: in the scenario (fresh colony, 3 ants, edge_quality q + p, identity
\* deposit) best_path() is (10, [1]) once the first ant is over and stays so
\* for the second and third ants.
C5_ScenarioBestPath ==
    (gens = 0 /\ ant_count = 3 /\ evaluator = "sum_identity"
        /\ FollowsScenario /\ OfferedMove
        /\ (ants_done >= 1 \/ pc = "panicked"))
        => BestPathResult(best_path) = SomePath(10, <<1>>)

\* C6: the quality reported by best_path() never decreases, at any step of
\* any run and hence from the end of one generation to the end of the next.
C6_BestQualityMonotone ==
    [][ReportedQuality(best_path') >= ReportedQuality(best_path)]_vars

\* C6 witness: a second generation with at least one ant has ended.
C6_Witness == pc = "idle" /\ gens >= 2 /\ ants_done >= 1

\* C7: when the targets enumerated at a node contain several candidates of
\* equal maximal visit score, the ant walks to the first of them.  Checked
\* on enumerations of candidates of one raw quality whose edges are new (zero
\* pheromone), so that all visit scores are equal: the scoring calls are
\* followed by walk_to of the first candidate.
C7_FirstEnumeratedWinsTies ==
    \A i \in 1..Len(log) :
        (/\ log[i].op = "targets"
         /\ Len(log[i].list) >= 2
         /\ \A j \in 1..Len(log[i].list) :
               log[i].list[j][1] = log[i].list[1][1])
        => LET k == i + Len(log[i].list) + 1
           IN  /\ k <= Len(log)
               /\ log[k].op = "walk_to"
               /\ log[k].arg = log[i].list[1][2]

\* C8: run with ant_count = 0 calls no policy, copies each existing edge's
\* prior level into its current slot and changes no other pheromone, leaves
\* best_path (and the path buffer) alone and flips the flag.
C8_CarryForwardLaw ==
    [][/\ (pc = "idle" /\ pc' = "loop" /\ ant_count' = 0)
            => /\ DOMAIN edges' = DOMAIN edges
               /\ \A k \in DOMAIN edges :
                     /\ edges'[k][Slot(use_map_b)] = edges[k][Slot(~use_map_b)]
                     /\ edges'[k][Slot(~use_map_b)] = edges[k][Slot(~use_map_b)]
               /\ log' = <<>>
               /\ UNCHANGED <<best_path, path_buf, use_map_b>>
       /\ (pc = "loop" /\ ant_count = 0)
            => /\ pc' = "idle"
               /\ use_map_b' = ~use_map_b
               /\ log' = <<>>
               /\ UNCHANGED <<edges, best_path, path_buf>>
      ]_vars

\* C8 witness: a run with no ants has returned on a fresh colony.
C8_Witness ==
    pc = "idle" /\ gens = 1 /\ ant_count = 0 /\ use_map_b /\ edges = <<>>

\* C9: the key built from (a, b) equals the key built from (b, a).
C9_KeySymmetric ==
    (keytest.ab # <<>> /\ keytest.ba # <<>>) => keytest.ab = keytest.ba

\* C9 witness: both keys were built for a pair given in descending order.
C9_Witness ==
    keytest.ab # <<>> /\ keytest.ba # <<>> /\ keytest.a > keytest.b

\* Number of reset() calls this run has made.
ResetCalls == Cardinality({i \in 1..Len(log) : log[i].op = "reset"})

\* C11: ants run one after another on one table: when a second or later ant
\* of a generation scores its candidates, scoring does not fail, every
\* candidate's edge is in the table afterwards, and each edge_quality call
\* receives the level the table holds for that edge, deposits of the earlier
\* ants of the generation included.
C11_IntraGenerationInfluence ==
    [][(/\ pc = "walk"
        /\ ants_done >= 1
        /\ Len(log') > Len(log)
        /\ log'[Len(log) + 1].op = "targets"
        /\ log'[Len(log) + 1].list # <<>>)
       => LET tl == log'[Len(log) + 1].list
          IN  /\ pc' # "panicked"
              /\ Len(log') >= Len(log) + 1 + Len(tl)
              /\ \A j \in 1..Len(tl) :
                    /\ EdgeKeyNew(curr_index, tl[j][2]) \in DOMAIN edges'
                    /\ log'[Len(log) + 1 + j] =
                          Call("edge_quality", tl[j][1],
                               <<GetPheromone(
                                    edges'[EdgeKeyNew(curr_index, tl[j][2])],
                                    use_map_b)>>)
      ]_vars

\* C12: the level of an edge in the slot the flag selects when the next
\* generation's carry-forward is done equals its level in the slot the flag
\* selected when the previous generation returned, and with non-negative
\* deposits the active level during a generation is never below that.
C12_CarryForward ==
    /\ edgetest.st = "copied" => ActiveLevel(edgetest) = edgetest.end_level
    /\ edgetest.st \in {"copied", "written"}
          => ActiveLevel(edgetest) >= edgetest.end_level

\* C12 witness: a generation has returned with a non-zero active level and
\* the next one has copied it forward.
C12_Witness ==
    /\ edgetest.st = "copied"
    /\ edgetest.end_level > 0
    /\ edgetest.ph = <<edgetest.end_level, edgetest.end_level>>

\* C13: between run calls, best_quality > 0 exactly when the best sequence
\* is non-empty.
C13_BestRecordConsistent ==
    pc = "idle" => ((best_path[1] > 0) <=> (Len(best_path[2]) > 0))

\* C13 witness: a run of at least two ants has returned.
C13_Witness == pc = "idle" /\ gens >= 1 /\ ants_done >= 2

\* C14: the flag changes only in the step in which run returns, after the
\* last ant, and every return changes it.
C14_FlagToggledOncePerRun ==
    [][/\ (use_map_b' # use_map_b)
            => (pc = "loop" /\ ants_done = ant_count /\ pc' = "idle")
       /\ (pc # "idle" /\ pc' = "idle") => (use_map_b' = ~use_map_b)
      ]_vars

\* C14 witness: two runs with ants have returned and the flag is back at A.
C14_Witness == pc = "idle" /\ gens = 2 /\ ants_done >= 1 /\ ~use_map_b

\* C15: an ant whose reset node has no targets ends with the one-element
\* path of its reset node, no pheromone changed and the best-path record
\* unchanged.
C15_ZeroMoveAnt ==
    [][(pc = "finish" /\ path_buf = <<>>)
       => /\ pc' = "loop"
          /\ path_buf' = <<curr_index>>
          /\ log[Len(log) - 1] = Call("reset", curr_index, <<>>)
          /\ edges' = edges
          /\ best_path' = best_path
      ]_vars

\* C15 witness: the first ant of a run has finished without a move.
C15_Witness ==
    /\ pc = "loop"
    /\ ants_done = 1
    /\ path_buf = <<curr_index>>
    /\ Len(log) = 3
    /\ log[2] = Call("targets", curr_index, <<>>)

\* C16: an ant's total is the sum of the raw qualities of the candidates it
\* chose: an ant offered a single candidate (q, t) scores it and walks to t,
\* and when that was its only move pheromones_deposited is called with q.
C16_RawQualityAccounting ==
    \A i \in 1..Len(log) :
        (log[i].op = "targets" /\ Len(log[i].list) = 1)
        => /\ Len(log) >= i + 2
           /\ log[i + 1].op = "edge_quality"
           /\ log[i + 2] = Call("walk_to", log[i].list[1][2], <<>>)
           /\ (/\ i > 1
               /\ log[i - 1].op = "reset"
               /\ Len(log) >= i + 4
               /\ log[i + 3].op = "targets"
               /\ log[i + 3].list = <<>>)
              => log[i + 4] =
                    Call("pheromones_deposited", log[i].list[1][1], <<>>)

\* C17: run is never cut short: no ant is aborted, reset has been called
\* once for every ant started, and when run returns it has been called
\* ant_count times.
C17_RunToCompletion ==
    /\ pc # "panicked"
    /\ pc \in {"walk", "finish"} => ResetCalls = ants_done + 1
    /\ pc = "loop" => ResetCalls = ants_done
    /\ (pc = "idle" /\ gens > 0) => ResetCalls = ant_count

\* C18: when the targets offered never include the current node, the table
\* never holds a self-loop edge, run does not fail, and once the ant has
\* deposited, an edge it moved across out of the node holds pheromone.
C18_NoSelfLoopEdges ==
    \A i \in 1..Len(log) :
        (/\ log[i].op = "targets"
         /\ log[i].list # <<>>
         /\ \A j \in 1..Len(log[i].list) : log[i].list[j][2] # log[i].arg)
        => /\ pc # "panicked"
           /\ \A k \in DOMAIN edges : k[1] # k[2]
           /\ (\E k \in (i + 1)..Len(log) : log[k].op = "pheromones_deposited")
                 => \E j \in 1..Len(log[i].list) :
                       LET key == EdgeKeyNew(log[i].arg, log[i].list[j][2])
                       IN  /\ key \in DOMAIN edges
                           /\ GetPheromone(edges[key], use_map_b) > 0

\* C19: the deposit step always works on a buffer of at least one element:
\* it never fails, and the buffer it leaves (the path buffer, or the best
\* sequence when the two were swapped) is non-empty.
C19_DepositLoopBounds ==
    [][pc = "finish"
       => /\ pc' = "loop"
          /\ IF best_path' = best_path
             THEN Len(path_buf') >= 1
             ELSE Len(best_path'[2]) >= 1
      ]_vars

\* C19 witness: a second ant in a row has made its deposits.
C19_Witness == pc = "loop" /\ ants_done >= 2 /\ Len(path_buf) = 1

====
